---- MODULE Spec2Model ----
(***************************************************************************)
(* Model of project-1.py: the /build endpoint (receive_task) and the steps *)
(* it calls in sequence: generate_app_with_groq, create_github_repo or     *)
(* update_github_repo, enable_github_pages, notify_evaluation.             *)
(*                                                                         *)
(* A request handler is split into one action per external HTTP call: the  *)
(* action is the call, the handling of its response and every statement up *)
(* to the next call.  The remote services (generation API, GitHub, the     *)
(* evaluation URL) answer nondeterministically within what their state     *)
(* allows.  Status 0 - 1 (Exc) stands for a call that raised instead of    *)
(* returning a response.                                                   *)
(*                                                                         *)
(* Text is a sequence of tokens; a token is a run of characters that the   *)
(* cleaning code treats as a unit (the fence, the word html in its three   *)
(* casings, "<", the DOCTYPE word, white space, other text).               *)
(***************************************************************************)
EXTENDS Integers, Sequences, FiniteSets, TLC

\* ---------------------------------------------------------------- bounds
NumReqs == 2
MaxRound == 3
MaxLen == 4

\* ------------------------------------------------------------- constants
Exc == 0 - 1
MY_SECRET == "s3cret"
GITHUB_USERNAME == "SiriChandanaSykam"
Reqs == 1..NumReqs
Rounds == 1..MaxRound
Tasks == {"demo1", "demo2"}
Secrets == {MY_SECRET, "wrong"}
\* mutant: the schedule one delay long
RetryDelaysLong == <<0, 1, 2, 4, 8, 16>>

\* mutant: the schedule one delay short
RetryDelaysShort == <<0, 1, 2, 4>>
RetryDelays == <<0, 1, 2, 4, 8>>

\* ------------------------------------------------------------------ text
\* chr(96) + chr(96) + chr(96), written as one token
backticks == "FENCE"
Tokens == {backticks, "html", "HTML", "Html", "<", "!DOCTYPE", " ", "x"}

RECURSIVE TextsOfLen(_)
TextsOfLen(n) ==
  IF n = 0 THEN {<<>>}
  ELSE {Append(s, t) : s \in TextsOfLen(n - 1), t \in Tokens}

Texts == UNION {TextsOfLen(n) : n \in 0..MaxLen}

\* str.lower()
LowerTok(t) ==
  CASE t = "HTML" -> "html"
    [] t = "Html" -> "html"
    [] t = "!DOCTYPE" -> "!doctype"
    [] OTHER -> t

Lower(s) == [i \in 1..Len(s) |-> LowerTok(s[i])]

\* needle in s
Contains(needle, s) ==
  \E i \in 0..(Len(s) - Len(needle)) :
    \A j \in 1..Len(needle) : s[i + j] = needle[j]

\* str.split(sep) for a one-token separator
RECURSIVE SplitFrom(_, _, _, _)
SplitFrom(s, sep, i, cur) ==
  IF i > Len(s) THEN <<cur>>
  ELSE IF s[i] = sep THEN <<cur>> \o SplitFrom(s, sep, i + 1, <<>>)
  ELSE SplitFrom(s, sep, i + 1, Append(cur, s[i]))

Split(s, sep) == SplitFrom(s, sep, 1, <<>>)

\* str.replace(old, "") for a one-token old
Remove(s, old) == SelectSeq(s, LAMBDA t : t # old)

\* str.strip()
RECURSIVE LStrip(_)
LStrip(s) == IF s # <<>> /\ Head(s) = " " THEN LStrip(Tail(s)) ELSE s

RECURSIVE RStrip(_)
RStrip(s) ==
  IF s # <<>> /\ s[Len(s)] = " " THEN RStrip(SubSeq(s, 1, Len(s) - 1)) ELSE s

Strip(s) == RStrip(LStrip(s))

\* the test of the loop over the parts
PartMatches(part) ==
  \/ Contains(<<"<", "html">>, Lower(part))
  \/ Contains(<<"<", "!DOCTYPE">>, Lower(part))

CleanPart(part) == Strip(Remove(Remove(part, "html"), "HTML"))

RECURSIVE CleanLoop(_, _, _)
CleanLoop(parts, i, html_code) ==
  IF i > Len(parts) THEN html_code
  ELSE IF PartMatches(parts[i]) THEN CleanPart(parts[i])
  ELSE CleanLoop(parts, i + 1, html_code)

\* "Clean markdown code blocks" of generate_app_with_groq
CleanCode(html_code) ==
  IF Contains(<<backticks>>, html_code)
  THEN CleanLoop(Split(html_code, backticks), 1, html_code)
  ELSE html_code


\* ----------------------------------------------------------------- state
VARIABLES
  request,        \* per request: the TaskRequest body, once received
  pc,             \* per request: the next external call of its handler
  html_code,      \* per request: local of receive_task
  repo_url,       \* per request: local of receive_task
  commit_sha,     \* per request: local of receive_task
  file_sha,       \* per request: local of update_file_in_repo
  calls,          \* per request: the external calls made so far, in order
  delays,         \* per request: notify_evaluation's sleep before each attempt
  notify_status,  \* per request: outcome of the latest notification attempt
  sent,           \* per request: the payloads posted to evaluation_url
  response,       \* per request: what receive_task answered
  repos,          \* GitHub: per repository name, its existence, pages, files
  nextSha,        \* GitHub: the next commit identifier it hands out
  raw,            \* cleaning alone: the text returned by the generation API
  cleaned,        \* cleaning alone: what generate_app_with_groq returns
  xpc             \* cleaning alone: "in" before, "out" after, "off" unused

vars ==
  <<request, pc, html_code, repo_url, commit_sha, file_sha, calls, delays, notify_status, sent, response, repos, nextSha,
    raw, cleaned, xpc>>

Files == {"README.md", "index.html", "LICENSE"}

\* the senders: each request of the model comes from its own address
Emails == [r \in Reqs |-> <<"user", r, "@example.com">>]

\* class TaskRequest (brief, checks, attachments carry no control)
TaskRequest ==
  [email : {Emails[r] : r \in Reqs}, secret : Secrets, task : Tasks,
   round : Rounds, nonce : Reqs]

NoRequest ==
  [email |-> <<>>, secret |-> "", task |-> "", round |-> 0, nonce |-> 0]

NoResponse ==
  [http |-> 0, status |-> "", repo_url |-> <<>>, pages_url |-> <<>>,
   commit_sha |-> 0, message |-> <<>>]

\* raise HTTPException(status_code=401, detail="Invalid secret")
Unauthorized ==
  [http |-> 401, status |-> "", repo_url |-> <<>>, pages_url |-> <<>>,
   commit_sha |-> 0, message |-> <<"Invalid secret">>]

\* return {"status": "success", ...}
SuccessResponse(url, pages, sha) ==
  [http |-> 200, status |-> "success", repo_url |-> url, pages_url |-> pages,
   commit_sha |-> sha, message |-> <<>>]

\* mutant: the failure answered as a server error
ErrorResponse500(msg) ==
  [http |-> 500, status |-> "error", repo_url |-> <<>>, pages_url |-> <<>>,
   commit_sha |-> 0, message |-> msg]

\* return {"status": "error", "message": str(e)}
ErrorResponse(msg) ==
  [http |-> 200, status |-> "error", repo_url |-> <<>>, pages_url |-> <<>>,
   commit_sha |-> 0, message |-> msg]

RepoUrl(repo_name) == <<"https://github.com", GITHUB_USERNAME, repo_name>>
PagesUrl(repo_name) == <<"https://github.io", GITHUB_USERNAME, repo_name>>

\* generate_readme: the title and the round line are what varies
generate_readme(repo_name, round_num) ==
  <<"#", repo_name, "Round", ToString(round_num)>>

get_mit_license == <<"MIT License">>

\* what the model may answer in the pipeline (cleaning is checked on Texts)
SampleTexts == {<<"<", "html", "x">>, <<backticks, "html", " ", "<", "Html", backticks>>}

NoFile == [present |-> FALSE, content |-> <<>>, commit |-> 0]
NoRepo == [exists |-> FALSE, pages |-> FALSE, files |-> [f \in Files |-> NoFile]]

InitHandlers ==
  /\ request = [r \in Reqs |-> NoRequest]
  /\ pc = [r \in Reqs |-> "idle"]
  /\ html_code = [r \in Reqs |-> <<>>]
  /\ repo_url = [r \in Reqs |-> <<>>]
  /\ commit_sha = [r \in Reqs |-> 0]
  /\ file_sha = [r \in Reqs |-> <<>>]
  /\ calls = [r \in Reqs |-> <<>>]
  /\ delays = [r \in Reqs |-> <<>>]
  /\ notify_status = [r \in Reqs |-> 0]
  /\ sent = [r \in Reqs |-> {}]
  /\ response = [r \in Reqs |-> NoResponse]

InitPipeline ==
  /\ InitHandlers
  /\ repos = [t \in Tasks |-> NoRepo]
  /\ nextSha = 1

Init ==
  /\ InitPipeline
  /\ raw = <<>>
  /\ cleaned = <<>>
  /\ xpc = "off"

XVars == <<raw, cleaned, xpc>>
GitHub == <<repos, nextSha>>
Notifier == <<delays, notify_status, sent>>

\* an exception reaches "except Exception as e" of receive_task
Raise(r, msg) ==
  /\ pc' = [pc EXCEPT ![r] = "done"]
  /\ response' = [response EXCEPT ![r] = ErrorResponse(msg)]

\* one external call: method, target, status of the answer (Exc: it raised),
\* what its body held ("": not looked at) and the commit identifier the
\* answer carried (0: none)
CallBody(r, op, arg, status, body, sha) ==
  calls' = [calls EXCEPT ![r] =
              Append(@, [op |-> op, arg |-> arg, status |-> status,
                         body |-> body, sha |-> sha])]

Call(r, op, arg, status, sha) == CallBody(r, op, arg, status, "", sha)

\* mutant: round 2 sent down the create path as well
PublishPathUpTo2(round) == IF round <= 2 THEN "create" ELSE "get_index"

\* receive_task: "if request.round == 1 ... else ..." before publishing
PublishPath(round) == IF round = 1 THEN "create" ELSE "get_index"

\* mutant: the pages step skipped on every round
AfterPublishNoPages(round) == "notify"

\* receive_task: "if request.round == 1" after publishing
AfterPublish(round) == IF round = 1 THEN "pages" ELSE "notify"

\* mutant: the secret is not compared
ReceiveUnchecked(r) ==
  /\ pc[r] = "idle"
  /\ \E req \in TaskRequest :
       /\ req.nonce = r
       /\ req.email = Emails[r]
       /\ request' = [request EXCEPT ![r] = req]
       /\ pc' = [pc EXCEPT ![r] = "generate"]
  /\ UNCHANGED <<response, html_code, repo_url, commit_sha, file_sha, calls,
                 GitHub, Notifier, XVars>>

\* receive_task up to the generation call
Receive(r) ==
  /\ pc[r] = "idle"
  /\ \E req \in TaskRequest :
       /\ req.nonce = r
       /\ req.email = Emails[r]
       /\ request' = [request EXCEPT ![r] = req]
       /\ IF req.secret # MY_SECRET
          THEN /\ pc' = [pc EXCEPT ![r] = "done"]
               /\ response' = [response EXCEPT ![r] = Unauthorized]
          ELSE /\ pc' = [pc EXCEPT ![r] = "generate"]
               /\ UNCHANGED response
  /\ UNCHANGED <<html_code, repo_url, commit_sha, file_sha, calls,
                 GitHub, Notifier, XVars>>

\* the generation API: a status, and a body with or without "choices"
GroqStatuses == {200, 500, Exc}
GroqBodies == {"choices", "error"}

\* generate_app_with_groq, and receive_task up to the first GitHub call
Generate(r) ==
  /\ pc[r] = "generate"
  /\ \E status \in GroqStatuses, body \in GroqBodies, text \in SampleTexts :
       /\ CallBody(r, "POST", "chat/completions", status, body, 0)
       /\ IF status = Exc
          THEN /\ body = "error"
               /\ Raise(r, <<"ConnectionError">>)
               /\ UNCHANGED html_code
          ELSE IF body # "choices"
          THEN /\ Raise(r, <<"KeyError", "choices">>)
               /\ UNCHANGED html_code
          ELSE /\ html_code' = [html_code EXCEPT ![r] = CleanCode(text)]
               /\ pc' = [pc EXCEPT ![r] = PublishPath(request[r].round)]
               /\ UNCHANGED response
  /\ UNCHANGED <<request, repo_url, commit_sha, file_sha,
                 GitHub, Notifier, XVars>>


\* ---------------------------------------------------------------- GitHub
\* POST /user/repos: 201 creates; a name that exists is refused
CreateStatuses(repo_name) ==
  (IF repos[repo_name].exists THEN {422} ELSE {201}) \cup {500, Exc}

\* PUT /repos/.../contents/<file>; sha is <<>> when the body carries none.
\* The blob identifier of a file is its content (content-addressed).
PutStatuses(repo_name, file, sha) ==
  LET f == repos[repo_name].files[file] IN
  (IF ~repos[repo_name].exists THEN {404}
   ELSE IF ~f.present THEN (IF sha = <<>> THEN {201} ELSE {422})
   ELSE IF sha = <<>> THEN {422}
   ELSE IF sha = <<f.content>> THEN {200}
   ELSE {409}) \cup {500, Exc}

\* GET /repos/.../contents/<file>
GetStatuses(repo_name, file) ==
  (IF repos[repo_name].exists /\ repos[repo_name].files[file].present
   THEN {200} ELSE {404}) \cup {500, Exc}

\* POST /repos/.../pages
PagesStatuses(repo_name) ==
  (IF ~repos[repo_name].exists THEN {404}
   ELSE IF repos[repo_name].pages THEN {409}
   ELSE {201}) \cup {500, Exc}

\* the commit GitHub makes for an accepted PUT
Commit(repo_name, file, content) ==
  /\ repos' = [repos EXCEPT ![repo_name].files[file] =
                 [present |-> TRUE, content |-> content, commit |-> nextSha]]
  /\ nextSha' = nextSha + 1

\* mutant: the status of the creation is not checked
CreateRepoUnchecked(r) ==
  /\ pc[r] = "create"
  /\ LET repo_name == request[r].task IN
     \E status \in CreateStatuses(repo_name) :
       /\ Call(r, "POST", "user/repos", status, 0)
       /\ IF status = Exc
          THEN /\ Raise(r, <<"ConnectionError">>)
               /\ UNCHANGED <<repos, repo_url>>
          ELSE /\ repos' = [repos EXCEPT ![repo_name].exists = @ \/ status = 201]
               /\ repo_url' = [repo_url EXCEPT ![r] = RepoUrl(repo_name)]
               /\ pc' = [pc EXCEPT ![r] = "add_readme"]
               /\ UNCHANGED response
  /\ UNCHANGED <<request, html_code, commit_sha, file_sha, nextSha,
                 Notifier, XVars>>

\* create_github_repo up to the first add_file_to_repo
CreateRepo(r) ==
  /\ pc[r] = "create"
  /\ LET repo_name == request[r].task IN
     \E status \in CreateStatuses(repo_name) :
       /\ Call(r, "POST", "user/repos", status, 0)
       /\ IF status = Exc
          THEN /\ Raise(r, <<"ConnectionError">>)
               /\ UNCHANGED <<repos, repo_url>>
          ELSE IF status # 201
          THEN /\ Raise(r, <<"Failed to create repo">>)
               /\ UNCHANGED <<repos, repo_url>>
          ELSE /\ repos' = [repos EXCEPT ![repo_name].exists = TRUE]
               /\ repo_url' = [repo_url EXCEPT ![r] = RepoUrl(repo_name)]
               /\ pc' = [pc EXCEPT ![r] = "add_readme"]
               /\ UNCHANGED response
  /\ UNCHANGED <<request, html_code, commit_sha, file_sha, nextSha,
                 Notifier, XVars>>

\* mutant: the answer of the PUT is not checked
add_file_to_repoUnchecked(r, file, content, keep, next) ==
  LET repo_name == request[r].task IN
  \E status \in PutStatuses(repo_name, file, <<>>) :
    IF status \notin {201, 200}
    THEN /\ Call(r, "PUT", file, status, 0)
         /\ pc' = [pc EXCEPT ![r] = next]
         /\ UNCHANGED <<GitHub, commit_sha, response>>
    ELSE /\ Call(r, "PUT", file, status, nextSha)
         /\ Commit(repo_name, file, content)
         /\ commit_sha' = [commit_sha EXCEPT ![r] = IF keep THEN nextSha ELSE @]
         /\ pc' = [pc EXCEPT ![r] = next]
         /\ UNCHANGED response

\* mutant: a refused write is submitted again
add_file_to_repoRetrying(r, file, content, keep, next) ==
  LET repo_name == request[r].task IN
  \E status \in PutStatuses(repo_name, file, <<>>) :
    IF status = Exc
    THEN /\ Call(r, "PUT", file, status, 0)
         /\ Raise(r, <<"ConnectionError">>)
         /\ UNCHANGED <<GitHub, commit_sha>>
    ELSE IF status \notin {201, 200}
    THEN /\ Call(r, "PUT", file, status, 0)
         /\ UNCHANGED <<GitHub, commit_sha, pc, response>>
    ELSE /\ Call(r, "PUT", file, status, nextSha)
         /\ Commit(repo_name, file, content)
         /\ commit_sha' = [commit_sha EXCEPT ![r] = IF keep THEN nextSha ELSE @]
         /\ pc' = [pc EXCEPT ![r] = next]
         /\ UNCHANGED response

\* add_file_to_repo(repo_name, file, content, ...), the caller keeping the
\* returned commit identifier in commit_sha when keep holds, and going on
\* to the call at next
add_file_to_repo(r, file, content, keep, next) ==
  LET repo_name == request[r].task IN
  \E status \in PutStatuses(repo_name, file, <<>>) :
    IF status = Exc
    THEN /\ Call(r, "PUT", file, status, 0)
         /\ Raise(r, <<"ConnectionError">>)
         /\ UNCHANGED <<GitHub, commit_sha>>
    ELSE IF status \notin {201, 200}
    THEN /\ Call(r, "PUT", file, status, 0)
         /\ Raise(r, <<"Failed to add", file>>)
         /\ UNCHANGED <<GitHub, commit_sha>>
    ELSE /\ Call(r, "PUT", file, status, nextSha)
         /\ Commit(repo_name, file, content)
         /\ commit_sha' = [commit_sha EXCEPT ![r] = IF keep THEN nextSha ELSE @]
         /\ pc' = [pc EXCEPT ![r] = next]
         /\ UNCHANGED response

\* mutant: index.html written before README.md
AddReadmeAfterIndex(r) ==
  /\ pc[r] = "add_readme"
  /\ add_file_to_repo(r, "index.html", html_code[r], TRUE, "add_index")
  /\ UNCHANGED <<request, html_code, repo_url, file_sha, Notifier, XVars>>

\* create_github_repo: README.md first (creates main branch)
AddReadme(r) ==
  /\ pc[r] = "add_readme"
  /\ add_file_to_repo(r, "README.md", generate_readme(request[r].task, 1),
                      FALSE, "add_index")
  /\ UNCHANGED <<request, html_code, repo_url, file_sha, Notifier, XVars>>

\* create_github_repo: index.html
AddIndex(r) ==
  /\ pc[r] = "add_index"
  /\ add_file_to_repo(r, "index.html", html_code[r], TRUE, "add_license")
  /\ UNCHANGED <<request, html_code, repo_url, file_sha, Notifier, XVars>>

\* mutant: commit_sha taken from the LICENSE write
AddLicenseKeepingSha(r) ==
  /\ pc[r] = "add_license"
  /\ add_file_to_repo(r, "LICENSE", get_mit_license, TRUE,
                      AfterPublish(request[r].round))
  /\ UNCHANGED <<request, html_code, repo_url, file_sha, Notifier, XVars>>

\* create_github_repo: LICENSE, return, and receive_task up to the pages call
AddLicense(r) ==
  /\ pc[r] = "add_license"
  /\ add_file_to_repo(r, "LICENSE", get_mit_license, FALSE,
                      AfterPublish(request[r].round))
  /\ UNCHANGED <<request, html_code, repo_url, file_sha, Notifier, XVars>>


\* update_file_in_repo, its GET: an answer other than 200 sends it to
\* add_file_to_repo (call at add), a 200 to its own PUT (call at put)
GetFile(r, file, put, add) ==
  LET repo_name == request[r].task IN
  \E status \in GetStatuses(repo_name, file) :
    /\ Call(r, "GET", file, status, 0)
    /\ IF status = Exc
       THEN /\ Raise(r, <<"ConnectionError">>)
            /\ UNCHANGED file_sha
       ELSE IF status # 200
       THEN /\ pc' = [pc EXCEPT ![r] = add]
            /\ UNCHANGED <<file_sha, response>>
       ELSE /\ file_sha' = [file_sha EXCEPT ![r] =
                              <<repos[repo_name].files[file].content>>]
            /\ pc' = [pc EXCEPT ![r] = put]
            /\ UNCHANGED response

\* mutant: the answer of the PUT is not checked
PutFileUnchecked(r, file, content, keep, next) ==
  LET repo_name == request[r].task IN
  \E status \in PutStatuses(repo_name, file, file_sha[r]) :
    IF status \notin {200, 201}
    THEN /\ Call(r, "PUT", file, status, 0)
         /\ pc' = [pc EXCEPT ![r] = next]
         /\ UNCHANGED <<GitHub, commit_sha, response>>
    ELSE /\ Call(r, "PUT", file, status, nextSha)
         /\ Commit(repo_name, file, content)
         /\ commit_sha' = [commit_sha EXCEPT ![r] = IF keep THEN nextSha ELSE @]
         /\ pc' = [pc EXCEPT ![r] = next]
         /\ UNCHANGED response

\* update_file_in_repo, its PUT with "sha": file_sha
PutFile(r, file, content, keep, next) ==
  LET repo_name == request[r].task IN
  \E status \in PutStatuses(repo_name, file, file_sha[r]) :
    IF status = Exc
    THEN /\ Call(r, "PUT", file, status, 0)
         /\ Raise(r, <<"ConnectionError">>)
         /\ UNCHANGED <<GitHub, commit_sha>>
    ELSE IF status \notin {200, 201}
    THEN /\ Call(r, "PUT", file, status, 0)
         /\ Raise(r, <<"Failed to update", file>>)
         /\ UNCHANGED <<GitHub, commit_sha>>
    ELSE /\ Call(r, "PUT", file, status, nextSha)
         /\ Commit(repo_name, file, content)
         /\ commit_sha' = [commit_sha EXCEPT ![r] = IF keep THEN nextSha ELSE @]
         /\ pc' = [pc EXCEPT ![r] = next]
         /\ UNCHANGED response

\* update_github_repo: update_file_in_repo(index.html), the GET
GetIndex(r) ==
  /\ pc[r] = "get_index"
  /\ repo_url' = [repo_url EXCEPT ![r] = RepoUrl(request[r].task)]
  /\ GetFile(r, "index.html", "put_index", "addfb_index")
  /\ UNCHANGED <<request, html_code, commit_sha, GitHub, Notifier, XVars>>

\* update_github_repo: update_file_in_repo(index.html), the PUT
PutIndex(r) ==
  /\ pc[r] = "put_index"
  /\ PutFile(r, "index.html", html_code[r], TRUE, "get_readme")
  /\ UNCHANGED <<request, html_code, repo_url, file_sha, Notifier, XVars>>

\* update_github_repo: update_file_in_repo(index.html) via add_file_to_repo
AddIndexFallback(r) ==
  /\ pc[r] = "addfb_index"
  /\ add_file_to_repo(r, "index.html", html_code[r], TRUE, "get_readme")
  /\ UNCHANGED <<request, html_code, repo_url, file_sha, Notifier, XVars>>

\* update_github_repo: update_file_in_repo(README.md), the GET
GetReadme(r) ==
  /\ pc[r] = "get_readme"
  /\ GetFile(r, "README.md", "put_readme", "addfb_readme")
  /\ UNCHANGED <<request, html_code, repo_url, commit_sha, GitHub, Notifier,
                 XVars>>

\* update_github_repo: update_file_in_repo(README.md), the PUT, and return
PutReadme(r) ==
  /\ pc[r] = "put_readme"
  /\ PutFile(r, "README.md", generate_readme(request[r].task, 2), FALSE,
             AfterPublish(request[r].round))
  /\ UNCHANGED <<request, html_code, repo_url, file_sha, Notifier, XVars>>

\* update_github_repo: update_file_in_repo(README.md) via add_file_to_repo
AddReadmeFallback(r) ==
  /\ pc[r] = "addfb_readme"
  /\ add_file_to_repo(r, "README.md", generate_readme(request[r].task, 2),
                      FALSE, AfterPublish(request[r].round))
  /\ UNCHANGED <<request, html_code, repo_url, file_sha, Notifier, XVars>>

\* enable_github_pages: no status raises, a call that raises is not caught
EnablePages(r) ==
  /\ pc[r] = "pages"
  /\ LET repo_name == request[r].task IN
     \E status \in PagesStatuses(repo_name) :
       /\ Call(r, "POST", "pages", status, 0)
       /\ IF status = Exc
          THEN /\ Raise(r, <<"ConnectionError">>)
               /\ UNCHANGED repos
          ELSE /\ repos' = [repos EXCEPT ![repo_name].pages = @ \/ status = 201]
               /\ pc' = [pc EXCEPT ![r] = "notify"]
               /\ UNCHANGED response
  /\ UNCHANGED <<request, html_code, repo_url, commit_sha, file_sha, nextSha,
                 Notifier, XVars>>

\* the evaluation URL: 200, another status, or no answer (error, timeout)
NotifyStatuses == {200, 500, Exc}

\* mutant: the round of the payload hard-coded
PayloadRound1(r) ==
  [email |-> request[r].email, task |-> request[r].task,
   round |-> 1,
   nonce |-> request[r].nonce, repo_url |-> repo_url[r],
   commit_sha |-> commit_sha[r], pages_url |-> PagesUrl(request[r].task)]

\* payload of notify_evaluation
Payload(r) ==
  [email |-> request[r].email, task |-> request[r].task,
   round |-> request[r].round,
   nonce |-> request[r].nonce, repo_url |-> repo_url[r],
   commit_sha |-> commit_sha[r], pages_url |-> PagesUrl(request[r].task)]

\* mutant: the notifier raises when its attempts are exhausted
NotifyAttemptRaising(r) ==
  /\ pc[r] = "notify"
  /\ LET attempt == Len(delays[r]) + 1
         delay == RetryDelays[attempt] IN
     \E status \in NotifyStatuses :
       /\ delays' = [delays EXCEPT ![r] = Append(@, delay)]
       /\ sent' = [sent EXCEPT ![r] = @ \cup {Payload(r)}]
       /\ notify_status' = [notify_status EXCEPT ![r] = status]
       /\ IF status = 200
          THEN /\ pc' = [pc EXCEPT ![r] = "done"]
               /\ response' = [response EXCEPT ![r] =
                    SuccessResponse(repo_url[r], PagesUrl(request[r].task),
                                    commit_sha[r])]
          ELSE IF attempt = Len(RetryDelays)
          THEN Raise(r, <<"Failed to notify">>)
          ELSE UNCHANGED <<pc, response>>
  /\ UNCHANGED <<request, html_code, repo_url, commit_sha, file_sha, calls,
                 GitHub, XVars>>

\* one turn of the loop of notify_evaluation; when the loop ends, by return
\* or by exhaustion, receive_task returns the success body
NotifyAttempt(r) ==
  /\ pc[r] = "notify"
  /\ LET attempt == Len(delays[r]) + 1
         delay == RetryDelays[attempt] IN
     \E status \in NotifyStatuses :
       /\ delays' = [delays EXCEPT ![r] = Append(@, delay)]
       /\ sent' = [sent EXCEPT ![r] = @ \cup {Payload(r)}]
       /\ notify_status' = [notify_status EXCEPT ![r] = status]
       /\ IF status = 200 \/ attempt = Len(RetryDelays)
          THEN /\ pc' = [pc EXCEPT ![r] = "done"]
               /\ response' = [response EXCEPT ![r] =
                    SuccessResponse(repo_url[r], PagesUrl(request[r].task),
                                    commit_sha[r])]
          ELSE UNCHANGED <<pc, response>>
  /\ UNCHANGED <<request, html_code, repo_url, commit_sha, file_sha, calls,
                 GitHub, XVars>>

Next ==
  \E r \in Reqs :
    \/ Receive(r)
    \/ Generate(r)
    \/ CreateRepo(r)
    \/ AddReadme(r)
    \/ AddIndex(r)
    \/ AddLicense(r)
    \/ GetIndex(r)
    \/ PutIndex(r)
    \/ AddIndexFallback(r)
    \/ GetReadme(r)
    \/ PutReadme(r)
    \/ AddReadmeFallback(r)
    \/ EnablePages(r)
    \/ NotifyAttempt(r)

Spec == Init /\ [][Next]_vars

\* a handler that has started goes on when the call it waits for returns or
\* fails: every external call eventually does one or the other
Step(r) ==
  \/ Generate(r)
  \/ CreateRepo(r)
  \/ AddReadme(r)
  \/ AddIndex(r)
  \/ AddLicense(r)
  \/ GetIndex(r)
  \/ PutIndex(r)
  \/ AddIndexFallback(r)
  \/ GetReadme(r)
  \/ PutReadme(r)
  \/ AddReadmeFallback(r)
  \/ EnablePages(r)
  \/ NotifyAttempt(r)

FairSpec == Spec /\ \A r \in Reqs : WF_vars(Step(r))

\* ------------------------------------------------ the cleaning on its own
Pipeline ==
  <<request, pc, html_code, repo_url, commit_sha, file_sha, calls, delays,
    notify_status, sent, response, repos, nextSha>>

InitClean ==
  /\ InitPipeline
  /\ raw \in Texts
  /\ cleaned = <<>>
  /\ xpc = "in"

\* generate_app_with_groq from "html_code = response.json()..." to its return
Clean ==
  /\ xpc = "in"
  /\ cleaned' = CleanCode(raw)
  /\ xpc' = "out"
  /\ UNCHANGED <<raw, Pipeline>>

NextClean == Clean

SpecClean == InitClean /\ [][NextClean]_vars

\* ----------------------------- the handlers on a repository published before
\* GitHub as an earlier round-1 request for demo1 has left it: the repository,
\* its pages and its three documents, written by the commits 1, 2, 3
PublishedRepo(repo_name, text) ==
  [exists |-> TRUE, pages |-> TRUE,
   files |-> [f \in Files |->
     CASE f = "README.md" ->
            [present |-> TRUE, content |-> generate_readme(repo_name, 1),
             commit |-> 1]
       [] f = "index.html" ->
            [present |-> TRUE, content |-> CleanCode(text), commit |-> 2]
       [] OTHER ->
            [present |-> TRUE, content |-> get_mit_license, commit |-> 3]]]

InitPublished ==
  /\ InitHandlers
  /\ repos = [t \in Tasks |->
               IF t = "demo1" THEN PublishedRepo(t, <<"<", "html", "x">>)
               ELSE NoRepo]
  /\ nextSha = 4
  /\ raw = <<>>
  /\ cleaned = <<>>
  /\ xpc = "off"

SpecPublished == InitPublished /\ [][Next]_vars


\* ================================================================ claims
Received(r) == request[r] # NoRequest
Authorized(r) == Received(r) /\ request[r].secret = MY_SECRET
Answered(r) == response[r] # NoResponse
Ok(c) == c.status \in {200, 201}
Puts(r) == SelectSeq(calls[r], LAMBDA c : c.op = "PUT")
Targets(cs) == [i \in 1..Len(cs) |-> cs[i].arg]
IsPrefix(s, t) == Len(s) <= Len(t) /\ \A i \in 1..Len(s) : s[i] = t[i]
Made(r, op, arg) == \E i \in 1..Len(calls[r]) : calls[r][i].op = op /\ calls[r][i].arg = arg
Attempts(r) == Len(delays[r])

\* C1: a request whose secret differs from the configured one is answered
\* 401 and makes no external call: no generation, repository, document,
\* pages or notification call.
C1_WrongSecretNoCall ==
  \A r \in Reqs :
    (Received(r) /\ request[r].secret # MY_SECRET) =>
      /\ response[r].http = 401
      /\ pc[r] = "done"
      /\ calls[r] = <<>>
      /\ delays[r] = <<>>
      /\ sent[r] = {}

\* C1 witness: a wrong-secret request was rejected while an authorized one
\* has gone on to make calls.
C1_Witness ==
  \E r, q \in Reqs :
    /\ Received(r) /\ request[r].secret # MY_SECRET /\ response[r].http = 401
    /\ Authorized(q) /\ calls[q] # <<>>

\* C2: on round 1 the writes are issued in the order README.md, index.html,
\* LICENSE, each only after the earlier ones succeeded, and every write
\* comes after a repository creation that answered 201.
C2_CreateOrder ==
  \A r \in Reqs :
    (Authorized(r) /\ request[r].round = 1) =>
      /\ IsPrefix(Targets(Puts(r)), <<"README.md", "index.html", "LICENSE">>)
      /\ \A i \in 1..(Len(Puts(r)) - 1) : Ok(Puts(r)[i])
      /\ \A i \in 1..Len(calls[r]) :
           calls[r][i].op = "PUT" =>
             \E j \in 1..(i - 1) :
               /\ calls[r][j].arg = "user/repos"
               /\ calls[r][j].status = 201

\* C2 witness: a round-1 request has written all three documents.
C2_Witness ==
  \E r \in Reqs :
    /\ Authorized(r) /\ request[r].round = 1
    /\ Len(Puts(r)) = 3
    /\ \A i \in 1..3 : Ok(Puts(r)[i])

\* C3: on a round above 1 no repository-creation call and no pages-enable
\* call is made, the writes are index.html and then README.md, and LICENSE
\* is never written.
C3_UpdateOnly ==
  \A r \in Reqs :
    (Authorized(r) /\ request[r].round > 1) =>
      /\ ~Made(r, "POST", "user/repos")
      /\ ~Made(r, "POST", "pages")
      /\ IsPrefix(Targets(Puts(r)), <<"index.html", "README.md">>)
      /\ ~Made(r, "PUT", "LICENSE")

\* C3 witness: a round-2 request has finished with both documents written.
C3_Witness ==
  \E r \in Reqs :
    /\ Authorized(r) /\ request[r].round = 2
    /\ response[r].status = "success"
    /\ Len(Puts(r)) = 2 /\ Ok(Puts(r)[1]) /\ Ok(Puts(r)[2])

\* C4: the notifier sleeps 0, 1, 2, 4, 8 before its attempts, in that order;
\* it goes on only while the latest attempt was not a 200, stops with the
\* first 200, makes five attempts when all fail, and never raises (the
\* handler's answer after it is never the error body).
C4_NotifySchedule ==
  \A r \in Reqs :
    /\ IsPrefix(delays[r], <<0, 1, 2, 4, 8>>)
    /\ (pc[r] = "notify" /\ Attempts(r) > 0) => notify_status[r] # 200
    /\ (pc[r] = "done" /\ Attempts(r) > 0) =>
         /\ notify_status[r] = 200 \/ Attempts(r) = 5
         /\ response[r].status # "error"

\* C4 witness: one request notified at once, another gave up after five.
C4_Witness ==
  \E r, q \in Reqs :
    /\ pc[r] = "done" /\ Attempts(r) = 1 /\ notify_status[r] = 200
    /\ pc[q] = "done" /\ Attempts(q) = 5 /\ notify_status[q] # 200

\* C5: once the steps before the notifier have succeeded, the answer is the
\* success body with the repository URL, the pages URL and the commit
\* identifier, whether the notification was delivered or all attempts failed.
C5_SuccessWhateverNotify ==
  \A r \in Reqs :
    (pc[r] = "done" /\ Attempts(r) > 0) =>
      /\ response[r].http = 200
      /\ response[r].status = "success"
      /\ response[r].repo_url = RepoUrl(request[r].task)
      /\ response[r].pages_url = PagesUrl(request[r].task)
      /\ response[r].commit_sha = commit_sha[r]
      /\ commit_sha[r] # 0

\* C5 witness: success was answered after five failed attempts, and after a
\* delivered one.
C5_Witness ==
  \E r, q \in Reqs :
    /\ response[r].status = "success" /\ Attempts(r) = 5 /\ notify_status[r] = Exc
    /\ response[q].status = "success" /\ notify_status[q] = 200


\* C6 (as claimed): on round 1, once the pages-enable call has been made,
\* whatever its outcome, the request goes on to the notifier and answers
\* success.
C6_PagesNeverAborts ==
  \A r \in Reqs :
    (Authorized(r) /\ request[r].round = 1 /\ Made(r, "POST", "pages")) =>
      \/ pc[r] = "notify"
      \/ pc[r] = "done" /\ Attempts(r) > 0 /\ response[r].status = "success"

\* the calls whose failure raises in the pipeline: a call that raised, a
\* generation answer without choices, a creation not answered 201, a write
\* not answered 200 or 201
Fatal(c) ==
  \/ c.status = Exc
  \/ c.arg = "chat/completions" /\ c.body # "choices"
  \/ c.arg = "user/repos" /\ c.status # 201
  \/ c.op = "PUT" /\ ~Ok(c)

\* C7: every answer to an authorized request is a 200 response; a failure
\* in the pipeline is the last call of the request, which then answers the
\* error body with a message, and makes no pages-enable call and no
\* notification attempt after it; the error body comes from nothing else.
C7_FailureCaughtAtTop ==
  \A r \in Reqs :
    Authorized(r) =>
      /\ Answered(r) =>
           /\ response[r].http = 200
           /\ response[r].status \in {"success", "error"}
      /\ \A i \in 1..Len(calls[r]) :
           Fatal(calls[r][i]) =>
             /\ i = Len(calls[r])
             /\ pc[r] = "done"
             /\ response[r].status = "error"
             /\ response[r].message # <<>>
             /\ Attempts(r) = 0 /\ sent[r] = {}
             /\ calls[r][i].arg # "pages" => ~Made(r, "POST", "pages")
      /\ response[r].status = "error" =>
           /\ calls[r] # <<>>
           /\ Fatal(calls[r][Len(calls[r])])

\* C7 witness: requests failed at the generation, at the creation and at the
\* LICENSE write, each answered with the error body.
C7_Witness ==
  \E r, q \in Reqs :
    /\ response[r].status = "error"
    /\ calls[r][Len(calls[r])].arg = "LICENSE"
    /\ response[q].status = "error"
    /\ calls[q][Len(calls[q])].arg \in {"chat/completions", "user/repos"}

\* C8 (as claimed): the generation call is made at most once per request,
\* and when it raises or is answered with a status outside 200..299 the
\* request ends with the error body and makes no other call and no
\* notification attempt.
C8_GenerationFailureFails ==
  \A r \in Reqs :
    /\ Cardinality({i \in 1..Len(calls[r]) :
                      calls[r][i].arg = "chat/completions"}) <= 1
    /\ \A i \in 1..Len(calls[r]) :
         (/\ calls[r][i].arg = "chat/completions"
          /\ calls[r][i].status \notin 200..299) =>
           /\ Len(calls[r]) = 1
           /\ pc[r] = "done"
           /\ response[r].status = "error"
           /\ Attempts(r) = 0

\* what the claim takes for a root markup tag: the html tag or the DOCTYPE
\* marker, in any casing
HasRootTag(part) ==
  \/ Contains(<<"<", "html">>, Lower(part))
  \/ Contains(<<"<", "!doctype">>, Lower(part))

\* the fenced segments of a text whose fences pair up: every second part
FencesPair(text) == Len(Split(text, backticks)) % 2 = 1
FencedWithRoot(text) ==
  {i \in 1..Len(Split(text, backticks)) :
     i % 2 = 0 /\ HasRootTag(Split(text, backticks)[i])}

DropLanguageTag(part) ==
  IF part # <<>> /\ Head(part) \in {"html", "HTML", "Html"}
  THEN Tail(part) ELSE part

\* the result C9 claims, up to white space at both ends of the segment
Claimed(text) ==
  IF FencedWithRoot(text) = {} THEN text
  ELSE LET i == CHOOSE k \in FencedWithRoot(text) :
                  \A j \in FencedWithRoot(text) : k <= j
       IN Strip(DropLanguageTag(Strip(Split(text, backticks)[i])))

\* C9 (as claimed): for a text whose fences pair up, the cleaning returns
\* the first fenced segment holding a root markup tag with only its leading
\* language tag removed, and returns the text unchanged when no fenced
\* segment holds one.
C9_Extraction ==
  (xpc = "out" /\ FencesPair(raw)) => cleaned = Claimed(raw)

\* C10: the commit identifier in the success body and in every payload sent
\* is the one the accepted index.html write of this request returned, and
\* none that an accepted README.md or LICENSE write of it returned.
C10_ShaOfIndexWrite ==
  \A r \in Reqs :
    LET wrote(f) == {calls[r][i].sha : i \in
                       {j \in 1..Len(calls[r]) :
                          /\ calls[r][j].op = "PUT"
                          /\ calls[r][j].arg = f
                          /\ Ok(calls[r][j])}}
        given == {p.commit_sha : p \in sent[r]} \cup
                 (IF response[r].status = "success"
                  THEN {response[r].commit_sha} ELSE {})
    IN /\ given \subseteq wrote("index.html")
       /\ given \cap (wrote("README.md") \cup wrote("LICENSE")) = {}
       /\ commit_sha[r] # 0 => commit_sha[r] \in wrote("index.html")

\* C10 witness: a round-1 and a later-round request have both answered
\* success, after all their writes.
C10_Witness ==
  \E r, q \in Reqs :
    /\ request[r].round = 1 /\ response[r].status = "success"
    /\ Len(Puts(r)) = 3 /\ sent[r] # {}
    /\ request[q].round > 1 /\ response[q].status = "success"
    /\ Len(Puts(q)) = 2 /\ sent[q] # {}


\* the accepted writes of a request among its first n calls
OkPutsBefore(r, n) ==
  {calls[r][i].arg : i \in {j \in 1..n : calls[r][j].op = "PUT" /\ Ok(calls[r][j])}}

\* the publish step of a request has completed within its first n calls
Published(r, n) ==
  IF request[r].round = 1
  THEN OkPutsBefore(r, n) = {"README.md", "index.html", "LICENSE"}
  ELSE OkPutsBefore(r, n) = {"index.html", "README.md"}

\* C11: per request the generation call comes first and has answered before
\* any repository call; the pages-enable call comes after all three writes;
\* the first notification attempt comes after the publish step (and, on
\* round 1, the pages-enable call) has completed, and no other call follows
\* it; the success body is returned only when the notifier has finished.
C11_StrictlyForward ==
  \A r \in Reqs :
    LET n == Len(calls[r]) IN
    /\ n > 0 => calls[r][1].arg = "chat/completions"
    /\ n > 1 => calls[r][1].body = "choices" /\ calls[r][1].status # Exc
    /\ \A i \in 1..n :
         calls[r][i].arg = "pages" =>
           OkPutsBefore(r, i - 1) = {"README.md", "index.html", "LICENSE"}
    /\ (Attempts(r) > 0 \/ sent[r] # {}) =>
         /\ Published(r, n)
         /\ ~Fatal(calls[r][n])
         /\ calls[r][n].arg =
              (IF request[r].round = 1 THEN "pages" ELSE "README.md")
    /\ response[r].status = "success" =>
         /\ pc[r] = "done"
         /\ Attempts(r) > 0
         /\ notify_status[r] = 200 \/ Attempts(r) = 5

\* C11 witness: a round-1 and a later-round request have been notified about.
C11_Witness ==
  \E r, q \in Reqs :
    /\ request[r].round = 1 /\ Attempts(r) > 1 /\ Made(r, "POST", "pages")
    /\ request[q].round > 1 /\ response[q].status = "success"

\* C12: every payload a request posts carries the email, task, round and
\* nonce of that request; all its attempts post the same payload; and its
\* repo_url, commit_sha and pages_url are those of the request's success
\* body. Requests are handled interleaved.
C12_PayloadOfOwnRequest ==
  \A r \in Reqs :
    /\ Cardinality(sent[r]) <= 1
    /\ Attempts(r) > 0 => sent[r] # {}
    /\ \A p \in sent[r] :
         /\ p.email = request[r].email
         /\ p.task = request[r].task
         /\ p.round = request[r].round
         /\ p.nonce = request[r].nonce
         /\ response[r].status = "success" =>
              /\ p.repo_url = response[r].repo_url
              /\ p.commit_sha = response[r].commit_sha
              /\ p.pages_url = response[r].pages_url

\* C12 witness: two requests of different tasks are both in the notifier,
\* each after more than one attempt; one of them answers success while the
\* other is still notifying.
C12_Witness ==
  \E r, q \in Reqs :
    /\ request[r].task # request[q].task
    /\ Attempts(r) > 1 /\ response[r].status = "success"
    /\ Attempts(q) > 1 /\ pc[q] = "notify"


\* C13 (as claimed): while the README.md of a repository is the one a
\* request of round r > 1 has written, its round line says r.
C13_ReadmeReflectsRound ==
  \A r \in Reqs :
    request[r].round > 1 =>
      LET readme == repos[request[r].task].files["README.md"] IN
      \A i \in 1..Len(calls[r]) :
        (/\ calls[r][i].op = "PUT" /\ calls[r][i].arg = "README.md"
         /\ Ok(calls[r][i])
         /\ readme.commit = calls[r][i].sha) =>
          readme.content = <<"#", request[r].task, "Round",
                             ToString(request[r].round)>>


\* the document a request is about to write in update_file_in_repo
Target(r) == IF pc[r] \in {"put_index", "addfb_index"} THEN "index.html" ELSE "README.md"
Current(r) == repos[request[r].task].files[Target(r)]
Submits(r) == calls'[r] # calls[r]

\* C14: on the update path a write with a revision identifier follows the
\* request's own read of that document and carries what it read; when the
\* document has changed since (another request wrote other content), the
\* write is rejected, the repository is left as it was and the request
\* answers error; a document that exists is only ever replaced by a write
\* carrying the identifier of the revision it replaces.
C14_NoLostUpdate ==
  [][\A r \in Reqs :
       /\ (pc[r] \in {"put_index", "put_readme"} /\ Submits(r)) =>
            /\ calls[r][Len(calls[r])].op = "GET"
            /\ calls[r][Len(calls[r])].arg = Target(r)
            /\ calls[r][Len(calls[r])].status = 200
            /\ file_sha[r] # <<Current(r).content>> =>
                 /\ repos' = repos
                 /\ pc'[r] = "done"
                 /\ response'[r].status = "error"
            /\ repos' # repos =>
                 /\ Current(r).present
                 /\ file_sha[r] = <<Current(r).content>>
       /\ (pc[r] \in {"addfb_index", "addfb_readme"} /\ Submits(r)
             /\ Current(r).present) =>
            /\ repos' = repos
            /\ response'[r].status = "error"
    ]_vars

\* C14 witness: two requests of a round above 1 for the same task have
\* interleaved; one has written index.html, the other's write of the
\* revision it had read before was answered 409 and it answered error.
C14_Witness ==
  \E r, q \in Reqs :
    /\ r # q /\ request[r].task = request[q].task
    /\ request[r].round > 1 /\ request[q].round > 1
    /\ Len(Puts(q)) > 0 /\ Ok(Puts(q)[1])
    /\ Len(Puts(r)) = 1 /\ Puts(r)[1].status = 409
    /\ response[r].status = "error"


\* C15 (as claimed): update_file_in_repo submits a write without a revision
\* identifier (through add_file_to_repo) only when the document does not
\* exist in the repository.
C15_PlainCreationOnlyWhenAbsent ==
  [][\A r \in Reqs :
       (pc[r] \in {"addfb_index", "addfb_readme"} /\ Submits(r)) =>
         ~Current(r).present
    ]_vars


\* C16: a request submits the write of a document at most once; a write
\* answered otherwise than 200 or 201 (or not answered) is its last call and
\* it answers error; the documents its earlier writes put in the repository
\* are still there; and no call but POST, PUT and GET is ever made.
C16_WriteOnceFatalNoCleanup ==
  \A r \in Reqs :
    /\ \A f \in Files :
         Cardinality({i \in 1..Len(Puts(r)) : Puts(r)[i].arg = f}) <= 1
    /\ \A i \in 1..Len(calls[r]) :
         /\ calls[r][i].op \in {"POST", "PUT", "GET"}
         /\ (calls[r][i].op = "PUT" /\ ~Ok(calls[r][i])) =>
              /\ i = Len(calls[r])
              /\ pc[r] = "done"
              /\ response[r].status = "error"
         /\ (calls[r][i].op = "PUT" /\ Ok(calls[r][i])) =>
              repos[request[r].task].files[calls[r][i].arg].present

\* C16 witness: the LICENSE write of a request was refused after its
\* README.md and index.html writes; both documents are in the repository
\* and the request answered error.
C16_Witness ==
  \E r \in Reqs :
    /\ Len(Puts(r)) = 3
    /\ Ok(Puts(r)[1]) /\ Ok(Puts(r)[2]) /\ Puts(r)[3].status = 500
    /\ Puts(r)[3].arg = "LICENSE"
    /\ repos[request[r].task].files["README.md"].present
    /\ repos[request[r].task].files["index.html"].present
    /\ ~repos[request[r].task].files["LICENSE"].present
    /\ response[r].status = "error"


Created(r) ==
  \E i \in 1..Len(calls[r]) :
    calls[r][i].arg = "user/repos" /\ calls[r][i].status = 201

\* a request whose creation call was not answered 201 has made no call
\* after it, no write, no pages call, no notification, and answered error;
\* per task at most one request has passed the creation
CreationGate ==
  /\ \A r \in Reqs :
       \A i \in 1..Len(calls[r]) :
         (calls[r][i].arg = "user/repos" /\ calls[r][i].status # 201) =>
           /\ i = Len(calls[r])
           /\ Puts(r) = <<>>
           /\ ~Made(r, "POST", "pages")
           /\ Attempts(r) = 0 /\ sent[r] = {}
           /\ pc[r] = "done"
           /\ response[r].status = "error"
  /\ \A t \in Tasks :
       Cardinality({r \in Reqs : request[r].task = t /\ Created(r)}) <= 1

\* C17: a round-1 request that makes its creation call while the repository
\* of its task exists is refused, changes nothing on GitHub and answers
\* error; it makes no call after that one (no write, no pages call, no
\* notification); at most one request per task passes the creation.
C17_ExistingRepoFailsCreation ==
  [][/\ \A r \in Reqs :
          (pc[r] = "create" /\ Submits(r) /\ repos[request[r].task].exists) =>
            /\ ~Created(r)'
            /\ repos' = repos
            /\ pc'[r] = "done"
            /\ response'[r].status = "error"
     /\ CreationGate'
    ]_vars

\* C17 witness: of two round-1 requests for one task, one created the
\* repository and then failed at a write; the other was refused and
\* answered error without a write.
C17_Witness ==
  \E r, q \in Reqs :
    /\ r # q /\ request[r].task = request[q].task
    /\ Created(q) /\ response[q].status = "error"
    /\ Made(r, "POST", "user/repos") /\ ~Created(r)
    /\ calls[r][Len(calls[r])].status = 422
    /\ response[r].status = "error" /\ Puts(r) = <<>>


\* C18: as long as the repository of its task has not been created, a
\* request of a round above 1 has made, after the generation, at most the
\* read of index.html, answered without a revision (404 when GitHub
\* answers), and the plain creation of index.html, refused (404 when GitHub
\* answers); it has made no creation call, no README.md call and no
\* notification attempt, and when it has ended it has answered error.
C18_UpdateWithoutRepoFails ==
  \A r \in Reqs :
    (Authorized(r) /\ request[r].round > 1
       /\ ~repos[request[r].task].exists) =>
      /\ Len(calls[r]) <= 3
      /\ \A i \in 2..Len(calls[r]) :
           /\ calls[r][i].arg = "index.html"
           /\ calls[r][i].op = (IF i = 2 THEN "GET" ELSE "PUT")
           /\ ~Ok(calls[r][i])
           /\ calls[r][i].status \in {404, 500, Exc}
      /\ Attempts(r) = 0 /\ sent[r] = {}
      /\ pc[r] \in {"generate", "get_index", "addfb_index", "done"}
      /\ pc[r] = "done" =>
           /\ response[r].status = "error"
           /\ response[r].message # <<>>

\* C18 witness: a round-2 request for a task without repository has read
\* index.html (404), tried the plain creation (404) and answered error.
C18_Witness ==
  \E r \in Reqs :
    /\ Authorized(r) /\ request[r].round = 2
    /\ ~repos[request[r].task].exists
    /\ Len(calls[r]) = 3
    /\ calls[r][2].op = "GET" /\ calls[r][2].status = 404
    /\ calls[r][3].op = "PUT" /\ calls[r][3].status = 404
    /\ response[r].status = "error"


\* C19: under FairSpec every authorized request is eventually answered, with
\* the success body or the error body (the requests being finitely many and
\* an answer final: from some point on every request received is answered);
\* an answer given is never replaced; and the notifier never makes more than
\* five attempts.
C19_EventuallyAnswered ==
  /\ <>[](\A r \in Reqs :
            Authorized(r) =>
              /\ pc[r] = "done"
              /\ response[r].status \in {"success", "error"})
  /\ [][\A r \in Reqs : Answered(r) => response'[r] = response[r]]_vars
  /\ [](\A r \in Reqs : Attempts(r) <= 5)

\* C19 witness: a request was answered after five failed notification
\* attempts, another with the error body.
C19_Witness ==
  \E r, q \in Reqs :
    /\ Authorized(r) /\ pc[r] = "done" /\ Attempts(r) = 5
    /\ notify_status[r] # 200 /\ response[r].status = "success"
    /\ Authorized(q) /\ pc[q] = "done" /\ response[q].status = "error"

====
